---- MODULE Spec2Model ----
(***************************************************************************)
(* A model of duecredit/collector.py: the DueCreditCollector registry      *)
(* (add, cite, dcite), the Citation objects it creates, and the            *)
(* CollectorGrave that dumps the collector to its outputs when it dies.    *)
(***************************************************************************)
EXTENDS Integers, Sequences, FiniteSets, TLC

\* ------------------------------------------------------------------ bounds
MaxCount == 2      \* successful cite calls modelled per entry key
MaxList == 2       \* longest list passed to add

\* ------------------------------------------------------------- input sets
Keys == {"K1", "K2"}
Vers == {1, 2}                       \* distinct Entry objects per key
None == "None"
Absent == "<absent>"                 \* a name missing from a kwargs dict
\* (use, level) pairs passed to cite
UseLevels == {<<None, None>>, <<"u1", "lvl1">>}
Sites == {"d1"}                      \* the dcite(...) calls of the program
Funcs == {[module |-> "mod", name |-> "f"], [module |-> "mod", name |-> "g"]}
FArgs == {0, 1}

\* DueCreditEntry objects; (key, ver) is the identity of the object.
\* Two objects share the key K1, one object has the key K2.
Entries == {e \in [kind : {"entry"}, key : Keys, ver : Vers] :
                e.key = "K1" \/ e.ver = 1}

\* a key passed where an entry is expected
KeyArgs == [kind : {"str"}, key : Keys]

\* the entry argument of the dcite calls modelled
DEntries == {[kind |-> "str", key |-> "K1"]} \cup {e \in Entries : e.ver = 2}

\* the (args, kwargs) of the dcite calls modelled:
\*   dcite(e, use="u2"), dcite(e, use="u2", level="lvl2"), dcite(e, "u2", "lvl2")
DCalls ==
    UNION {{ [args |-> <<e>>, kwargs |-> [use |-> "u2", level |-> Absent]],
             [args |-> <<e>>, kwargs |-> [use |-> "u2", level |-> "lvl2"]],
             [args |-> <<e, "u2", "lvl2">>,
              kwargs |-> [use |-> Absent, level |-> Absent]] } : e \in DEntries}

\* lists of entries, as accepted by add
ListOf(items) == [kind |-> "list", items |-> items]
Lists == UNION {{ListOf(items) : items \in [1..n -> Entries]} : n \in 0..MaxList}

\* DueCreditEntry.get_key
get_key(e) == e.key

\* isinstance(x, DueCreditEntry) / isinstance(x, list)
isinstance(x, cls) == x.kind = cls

\* values an operation returns
NoneVal == [t |-> "None"]
CitationRef(id) == [t |-> "Citation", id |-> id]
IntVal(v) == [t |-> "int", v |-> v]
Closure(kind, id) == [t |-> kind, id |-> id]

\* the functions that get decorated: f returns, g raises on argument 0
Raised == [t |-> "raise"]
Apply(func, x) ==
    IF func.name = "f" THEN IntVal(x + 10)
    ELSE IF x = 0 THEN Raised ELSE IntVal(x + 20)

VARIABLES
    entries,      \* DueCreditCollector._entries : key -> Entry
    citations,    \* DueCreditCollector.citations : key -> Citation object
    heap,         \* the Citation objects: id -> [entry, use, level, count]
    decos,        \* closures returned by dcite: site -> [args, kwargs]
    wrappers,     \* cite_wrapper closures returned by func_wrapper
    pc,           \* "idle", or "body" while a decorated function body runs
    frame,        \* the running cite_wrapper call
    ret,          \* how the last operation ended: value returned or raised
    ncite,        \* history: successful cite calls per key
    ndirect,      \* history: those of them not made by a cite_wrapper
    ninvoke,      \* history: decorated calls made per key while registered
    handed,       \* history: the Citation objects cite has returned, per key
    environ,      \* DUECREDIT_OUTPUTS as CollectorGrave.__init__ read it
    grave,        \* the CollectorGrave: "none", "alive", "failed" or "dead"
    outputs,      \* CollectorGrave._outputs
    dumps,        \* per output: how often dump was called, and what it wrote
    broken,       \* the sinks that were unwritable when the grave died
    threads,      \* the threads that run cite concurrently: position and locals
    lgr           \* the messages logged by _load_bib

cvars == <<entries, citations, heap>>
dvars == <<decos, wrappers, pc, frame>>
hvars == <<ncite, ndirect, ninvoke, handed>>
gvars == <<environ, grave, outputs, dumps, broken>>
xvars == <<threads, lgr>>
vars == <<entries, citations, heap, decos, wrappers, pc, frame, ret,
          ncite, ndirect, ninvoke, handed, environ, grave, outputs, dumps,
          broken, threads, lgr>>

Threads == {"t1", "t2"}
Idle == [pc |-> "idle"]
Unset == <<"<unset>">>
NoFrame == [w |-> None]
NoDeco == [t |-> "undefined"]
Returned(op, val) == [op |-> op, raised |-> None, val |-> val]
Raise(op, exc) == [op |-> op, raised |-> exc, val |-> NoneVal]

\* DueCreditCollector.__init__ with no arguments
CollectorInit ==
    /\ entries = << >>
    /\ citations = << >>
    /\ heap = << >>

Init ==
    /\ CollectorInit
    /\ decos = [d \in Sites |-> NoDeco]
    /\ wrappers = {}
    /\ pc = "idle"
    /\ frame = NoFrame
    /\ ret = Returned("init", NoneVal)
    /\ ncite = [k \in Keys |-> 0]
    /\ ndirect = [k \in Keys |-> 0]
    /\ ninvoke = [k \in Keys |-> 0]
    /\ handed = [k \in Keys |-> {}]
    /\ environ = Unset
    /\ grave = "none"
    /\ outputs = << >>
    /\ dumps = << >>
    /\ broken = {}
    /\ threads = [t \in Threads |-> Idle]
    /\ lgr = {}

\* dict item assignment  d[k] = v
Put(d, k, v) == [x \in (DOMAIN d) \cup {k} |-> IF x = k THEN v ELSE d[x]]

\* mutant of addOne: the first Entry registered under a key is kept
addOne_setdefault(es, entry) ==
    IF get_key(entry) \in DOMAIN es THEN es ELSE Put(es, get_key(entry), entry)

\* DueCreditCollector.add, the non-list branch
addOne(es, entry) == Put(es, get_key(entry), entry)

\* DueCreditCollector.add, the list branch: element by element, in order
RECURSIVE addAll(_, _)
addAll(es, items) ==
    IF items = << >> THEN es
    ELSE addAll(addOne(es, Head(items)), Tail(items))

\* DueCreditCollector.add
add(es, entry) ==
    IF isinstance(entry, "list") THEN addAll(es, entry.items)
    ELSE addOne(es, entry)

Add(entry) ==
    /\ pc = "idle"
    /\ entries' = add(entries, entry)
    /\ ret' = Returned("add", NoneVal)
    /\ UNCHANGED <<citations, heap, dvars, hvars, gvars, xvars>>

\* Citation.__init__
Citation(entry, use, level) ==
    [entry |-> entry, use |-> use, level |-> level, count |-> 0]

\* mutant of cite_create: the Citation is bound to the Entry of the last call
cite_create_rebind(cs, hp, entry_, use, level) ==
    IF get_key(entry_) \notin DOMAIN cs
    THEN [citations |-> Put(cs, get_key(entry_), Len(hp) + 1),
          heap |-> Append(hp, Citation(entry_, use, level))]
    ELSE [citations |-> cs,
          heap |-> [hp EXCEPT ![cs[get_key(entry_)]].entry = entry_]]

\* mutant of cite_create: the use and level of the last call are kept
cite_create_update(cs, hp, entry_, use, level) ==
    IF get_key(entry_) \notin DOMAIN cs
    THEN [citations |-> Put(cs, get_key(entry_), Len(hp) + 1),
          heap |-> Append(hp, Citation(entry_, use, level))]
    ELSE [citations |-> cs,
          heap |-> [hp EXCEPT ![cs[get_key(entry_)]].use = use,
                              ![cs[get_key(entry_)]].level = level]]

\* mutant of cite_create: a new Citation on every call
cite_create_always(cs, hp, entry_, use, level) ==
    [citations |-> Put(cs, get_key(entry_), Len(hp) + 1),
     heap |-> Append(hp, Citation(entry_, use, level))]

\* cite, lines 73-74: create the Citation of entry_key when there is none
cite_create(cs, hp, entry_, use, level) ==
    IF get_key(entry_) \notin DOMAIN cs
    THEN [citations |-> Put(cs, get_key(entry_), Len(hp) + 1),
          heap |-> Append(hp, Citation(entry_, use, level))]
    ELSE [citations |-> cs, heap |-> hp]

\* mutant of cite_count: the count is set, not incremented
cite_count_set(hp, citation) == [hp EXCEPT ![citation].count = 1]

\* cite, line 76: citation.count += 1
cite_count(hp, citation) == [hp EXCEPT ![citation].count = @ + 1]

\* mutant of cite_entries: an Entry instance is cited without being added
cite_entries_noadd(es, entry) == es

\* cite, lines 65-70: the entry mapping after the entry is resolved
cite_entries(es, entry) ==
    IF isinstance(entry, "entry") THEN add(es, entry) ELSE es

\* cite, lines 71-79, once entry_ is resolved
cite_resolved(c, entry, entry_, use, level) ==
    LET entry_key == get_key(entry_)
        made == cite_create(c.citations, c.heap, entry_, use, level)
        citation == made.citations[entry_key]
    IN [entries |-> cite_entries(c.entries, entry),
        citations |-> made.citations,
        heap |-> cite_count(made.heap, citation),
        raised |-> None, ret |-> CitationRef(citation), key |-> entry_key]

\* mutant of cite: the Citation is created under the key before the key is
\* looked up
cite_early(c, entry, use, level) ==
    IF isinstance(entry, "entry")
    THEN cite_resolved(c, entry, entry, use, level)
    ELSE IF entry.key \in DOMAIN c.entries
    THEN cite_resolved(c, entry, c.entries[entry.key], use, level)
    ELSE [entries |-> c.entries,
          citations |-> cite_create(c.citations, c.heap, entry, use, level).citations,
          heap |-> cite_create(c.citations, c.heap, entry, use, level).heap,
          raised |-> "KeyError", ret |-> NoneVal, key |-> entry.key]

\* DueCreditCollector.cite on the collector c = [entries, citations, heap]:
\* the collector after the call, the exception raised if any, the Citation
\* returned and the key the call is about
cite(c, entry, use, level) ==
    IF isinstance(entry, "entry")
    THEN cite_resolved(c, entry, entry, use, level)
    ELSE IF entry.key \in DOMAIN c.entries
    THEN cite_resolved(c, entry, c.entries[entry.key], use, level)
    ELSE [entries |-> c.entries, citations |-> c.citations, heap |-> c.heap,
          raised |-> "KeyError", ret |-> NoneVal, key |-> entry.key]

Collector == [entries |-> entries, citations |-> citations, heap |-> heap]

\* the count of the Citation of key k, 0 when there is none
Count(cs, hp, k) == IF k \in DOMAIN cs THEN hp[cs[k]].count ELSE 0

Bump(n, r) == IF r.raised = None THEN [n EXCEPT ![r.key] = @ + 1] ELSE n
Hand(h, r) == IF r.raised = None THEN [h EXCEPT ![r.key] = @ \cup {r.ret.id}] ELSE h

Cite(entry, use, level) ==
    /\ pc = "idle"
    /\ LET r == cite(Collector, entry, use, level) IN
        /\ r.raised = None => ncite[r.key] < MaxCount
        /\ entries' = r.entries
        /\ citations' = r.citations
        /\ heap' = r.heap
        /\ ret' = IF r.raised = None THEN Returned("cite", r.ret)
                  ELSE Raise("cite", r.raised)
        /\ ncite' = Bump(ncite, r)
        /\ ndirect' = Bump(ndirect, r)
        /\ handed' = Hand(handed, r)
    /\ UNCHANGED <<dvars, ninvoke, gvars, xvars>>

\* 'func %s.%s' % (func.__module__, func.__name__)
FuncLevel(func) == "func " \o func.module \o "." \o func.name

\* DueCreditCollector.dcite: a closure over args and kwargs, where use and
\* level may be missing from kwargs; nolevel remembers that the call
\* passed no level
Dcite(d, call) ==
    /\ pc = "idle"
    /\ decos[d] = NoDeco
    /\ decos' = [decos EXCEPT ![d] =
                    [args |-> call.args, kwargs |-> call.kwargs,
                     nolevel |-> Len(call.args) < 3 /\ call.kwargs.level = Absent]]
    /\ ret' = Returned("dcite", Closure("func_wrapper", d))
    /\ UNCHANGED <<cvars, wrappers, pc, frame, hvars, gvars, xvars>>

\* func_wrapper, lines 99-101: kwargs is the dict of the enclosing dcite call
func_wrapper_kwargs(kwargs, func) ==
    IF kwargs.level = Absent THEN [kwargs EXCEPT !.level = FuncLevel(func)]
    ELSE kwargs

\* mutant of FuncWrapper: the citation is made when the function is
\* decorated
FuncWrapper_eager(d, func) ==
    /\ pc = "idle"
    /\ decos[d] # NoDeco
    /\ decos' = [decos EXCEPT ![d].kwargs = func_wrapper_kwargs(@, func)]
    /\ wrappers' = wrappers \cup {[deco |-> d, func |-> func]}
    /\ ret' = Returned("func_wrapper",
                       [t |-> "cite_wrapper", deco |-> d, func |-> func])
    /\ LET r == cite(Collector, decos[d].args[1], None, None) IN
        /\ entries' = r.entries
        /\ citations' = r.citations
        /\ heap' = r.heap
    /\ UNCHANGED <<pc, frame, hvars, gvars, xvars>>

\* func_wrapper: applying the closure d to func returns a cite_wrapper
FuncWrapper(d, func) ==
    /\ pc = "idle"
    /\ decos[d] # NoDeco
    /\ decos' = [decos EXCEPT ![d].kwargs = func_wrapper_kwargs(@, func)]
    /\ wrappers' = wrappers \cup {[deco |-> d, func |-> func]}
    /\ ret' = Returned("func_wrapper",
                       [t |-> "cite_wrapper", deco |-> d, func |-> func])
    /\ UNCHANGED <<cvars, pc, frame, hvars, gvars, xvars>>

\* binding *args and **kwargs to cite(self, entry, use=None, level=None):
\* a parameter given both ways is a TypeError
binds(args, kwargs) ==
    /\ ~(Len(args) >= 2 /\ kwargs.use # Absent)
    /\ ~(Len(args) >= 3 /\ kwargs.level # Absent)
bound(args, kwargs, i, name) ==
    IF Len(args) >= i THEN args[i]
    ELSE IF kwargs[name] # Absent THEN kwargs[name]
    ELSE None

\* mutant of wrapper_cite: the call is cited twice
wrapper_cite_twice(c, clo) ==
    IF binds(clo.args, clo.kwargs)
    THEN cite(cite(c, clo.args[1], bound(clo.args, clo.kwargs, 2, "use"),
                   bound(clo.args, clo.kwargs, 3, "level")),
              clo.args[1], bound(clo.args, clo.kwargs, 2, "use"),
              bound(clo.args, clo.kwargs, 3, "level"))
    ELSE [entries |-> c.entries, citations |-> c.citations, heap |-> c.heap,
          raised |-> "TypeError", ret |-> NoneVal, key |-> None]

\* cite_wrapper, line 105: self.cite(*args, **kwargs) with the closure's
\* args and kwargs as they are when the wrapper is called
wrapper_cite(c, clo) ==
    IF binds(clo.args, clo.kwargs)
    THEN cite(c, clo.args[1], bound(clo.args, clo.kwargs, 2, "use"),
              bound(clo.args, clo.kwargs, 3, "level"))
    ELSE [entries |-> c.entries, citations |-> c.citations, heap |-> c.heap,
          raised |-> "TypeError", ret |-> NoneVal, key |-> None]

\* mutant of wrapper_call: the function's value is dropped
wrapper_call_noreturn(func, farg) ==
    IF Apply(func, farg) = Raised THEN Raised ELSE NoneVal

\* cite_wrapper, line 106: return func(*fargs, **fkwargs)
wrapper_call(func, farg) == Apply(func, farg)

\* the key a closure of dcite cites, and whether cite can resolve it
KeyOf(clo) == clo.args[1].key
Resolvable(clo) ==
    isinstance(clo.args[1], "entry") \/ KeyOf(clo) \in DOMAIN entries

\* cite_wrapper up to the point where the decorated function's body starts
CiteWrapper(w, farg) ==
    /\ pc = "idle"
    /\ w \in wrappers
    /\ ninvoke[KeyOf(decos[w.deco])] < MaxCount
    /\ ninvoke' = IF Resolvable(decos[w.deco])
                  THEN [ninvoke EXCEPT ![KeyOf(decos[w.deco])] = @ + 1]
                  ELSE ninvoke
    /\ LET r == wrapper_cite(Collector, decos[w.deco]) IN
        /\ r.raised = None => ncite[r.key] < MaxCount
        /\ entries' = r.entries
        /\ citations' = r.citations
        /\ heap' = r.heap
        /\ ncite' = Bump(ncite, r)
        /\ handed' = Hand(handed, r)
        /\ IF r.raised = None
           THEN /\ pc' = "body"
                /\ frame' = [w |-> w, farg |-> farg, key |-> r.key,
                             count0 |-> Count(citations, heap, r.key)]
                /\ ret' = Returned("cite", r.ret)
           ELSE /\ ret' = Raise("cite_wrapper", r.raised)
                /\ UNCHANGED <<pc, frame>>
    /\ UNCHANGED <<decos, wrappers, ndirect, gvars, xvars>>

\* the decorated function returns and cite_wrapper returns its value
BodyReturn ==
    /\ pc = "body"
    /\ wrapper_call(frame.w.func, frame.farg) # Raised
    /\ ret' = Returned("cite_wrapper", wrapper_call(frame.w.func, frame.farg))
    /\ pc' = "idle"
    /\ frame' = NoFrame
    /\ UNCHANGED <<cvars, decos, wrappers, hvars, gvars, xvars>>

\* the decorated function raises and the exception leaves cite_wrapper
BodyRaise ==
    /\ pc = "body"
    /\ wrapper_call(frame.w.func, frame.farg) = Raised
    /\ ret' = Raise("cite_wrapper", "FuncError")
    /\ pc' = "idle"
    /\ frame' = NoFrame
    /\ UNCHANGED <<cvars, decos, wrappers, hvars, gvars, xvars>>

Next ==
    \/ \E e \in Entries : Add(e)
    \/ \E e \in Entries \cup KeyArgs, ul \in UseLevels : Cite(e, ul[1], ul[2])
    \/ \E d \in Sites, call \in DCalls : Dcite(d, call)
    \/ \E d \in Sites, func \in Funcs : FuncWrapper(d, func)
    \/ \E w \in wrappers, farg \in FArgs : CiteWrapper(w, farg)
    \/ BodyReturn
    \/ BodyRaise

Spec == Init /\ [][Next]_vars

\* a program that registers entries one by one and in lists, and cites them
NextAdd ==
    \/ \E e \in Entries \cup Lists : Add(e)
    \/ \E e \in Entries \cup KeyArgs, ul \in UseLevels : Cite(e, ul[1], ul[2])

SpecAdd == Init /\ [][NextAdd]_vars

\* ------------------------------------------------------------------ load

\* the sources given to load: the strings "refs.bib", ".bib", "refs.txt",
\* "bib", "", "refs.BIB" and "refs.bib.txt", and values that are not str:
\* None, a list, an Entry and the bytes b"refs.bib"
Str(chars) == [kind |-> "str", chars |-> chars]
S_bib == <<".", "b", "i", "b">>
S_refs == <<"r", "e", "f", "s">>
Srcs ==
    { Str(S_refs \o S_bib),
      Str(S_bib),
      Str(S_refs \o <<".", "t", "x", "t">>),
      Str(<<"b", "i", "b">>),
      Str(<< >>),
      Str(S_refs \o <<".", "B", "I", "B">>),
      Str(S_refs \o S_bib \o <<".", "t", "x", "t">>),
      [kind |-> "NoneType"],
      ListOf(<< >>),
      [kind |-> "entry", key |-> "K1", ver |-> 1],
      [kind |-> "bytes", chars |-> S_refs \o S_bib] }

\* str.endswith(suffix)
endswith(str, suffix) ==
    /\ Len(str) >= Len(suffix)
    /\ SubSeq(str, Len(str) - Len(suffix) + 1, Len(str)) = suffix

\* DueCreditCollector._load_bib: the debug message is all it does
load_bib(log, src) == log \cup {<<"Loading", src.chars>>}

\* mutant of load: every string is given to _load_bib
load_unchecked(log, src) ==
    IF isinstance(src, "str")
    THEN [lgr |-> load_bib(log, src), raised |-> None]
    ELSE [lgr |-> log, raised |-> "ValueError"]

\* DueCreditCollector.load: the log after the call and the exception raised
load(log, src) ==
    IF isinstance(src, "str")
    THEN IF endswith(src.chars, S_bib)
         THEN [lgr |-> load_bib(log, src), raised |-> None]
         ELSE [lgr |-> log, raised |-> "NotImplementedError"]
    ELSE [lgr |-> log, raised |-> "ValueError"]

Load(src) ==
    /\ pc = "idle"
    /\ LET r == load(lgr, src) IN
        /\ lgr' = r.lgr
        /\ ret' = IF r.raised = None THEN Returned("load", NoneVal)
                  ELSE Raise("load", r.raised)
    /\ UNCHANGED <<cvars, dvars, hvars, gvars, threads>>

\* a program that registers entries, cites them and loads sources
NextLoad ==
    \/ \E e \in Entries : Add(e)
    \/ \E e \in Entries \cup KeyArgs : Cite(e, None, None)
    \/ \E src \in Srcs : Load(src)

SpecLoad == Init /\ [][NextLoad]_vars

\* ------------------------------------------------- cite called by threads
\* DueCreditCollector.cite takes no lock: a thread running it can be
\* preempted between any two of its statements, and between the read and
\* the write of  citation.count += 1.

InFlight(k) == Cardinality({t \in Threads : threads[t].pc # "idle"
                                            /\ threads[t].key = k})

\* cite, lines 65-71: the entry is resolved, an Entry instance is added
ThreadBegin(t, entry, use, level) ==
    /\ threads[t].pc = "idle"
    /\ IF isinstance(entry, "str") /\ entry.key \notin DOMAIN entries
       THEN /\ ret' = Raise("cite", "KeyError")
            /\ UNCHANGED <<entries, threads>>
       ELSE LET entry_ == IF isinstance(entry, "entry") THEN entry
                          ELSE entries[entry.key]
            IN /\ ncite[get_key(entry_)] + InFlight(get_key(entry_)) < MaxCount
               /\ entries' = cite_entries(entries, entry)
               /\ threads' = [threads EXCEPT ![t] =
                      [pc |-> "check", key |-> get_key(entry_),
                       entry_ |-> entry_, use |-> use, level |-> level,
                       citation |-> 0, count |-> 0]]
               /\ UNCHANGED ret
    /\ UNCHANGED <<citations, heap, dvars, hvars, gvars, lgr>>

\* cite, line 73: if entry_key not in self.citations
ThreadCheck(t) ==
    /\ threads[t].pc = "check"
    /\ threads' = [threads EXCEPT ![t].pc =
                      IF threads[t].key \notin DOMAIN citations
                      THEN "create" ELSE "load"]
    /\ UNCHANGED <<cvars, dvars, ret, hvars, gvars, lgr>>

\* cite, line 74: self.citations[entry_key] = Citation(entry_, use, level)
ThreadCreate(t) ==
    /\ threads[t].pc = "create"
    /\ heap' = Append(heap, Citation(threads[t].entry_, threads[t].use,
                                     threads[t].level))
    /\ citations' = Put(citations, threads[t].key, Len(heap) + 1)
    /\ threads' = [threads EXCEPT ![t].pc = "load"]
    /\ UNCHANGED <<entries, dvars, ret, hvars, gvars, lgr>>

\* cite, line 75: citation = self.citations[entry_key]
ThreadLoad(t) ==
    /\ threads[t].pc = "load"
    /\ threads' = [threads EXCEPT ![t].pc = "read",
                                  ![t].citation = citations[threads[t].key]]
    /\ UNCHANGED <<cvars, dvars, ret, hvars, gvars, lgr>>

\* cite, line 76, citation.count += 1: the count is read
ThreadRead(t) ==
    /\ threads[t].pc = "read"
    /\ threads' = [threads EXCEPT ![t].pc = "write",
                                  ![t].count = heap[threads[t].citation].count]
    /\ UNCHANGED <<cvars, dvars, ret, hvars, gvars, lgr>>

\* cite, line 76, citation.count += 1: the count read plus one is stored
ThreadWrite(t) ==
    /\ threads[t].pc = "write"
    /\ heap' = [heap EXCEPT ![threads[t].citation].count =
                                threads[t].count + 1]
    /\ threads' = [threads EXCEPT ![t].pc = "return"]
    /\ UNCHANGED <<entries, citations, dvars, ret, hvars, gvars, lgr>>

\* cite, line 79: return citation
ThreadReturn(t) ==
    /\ threads[t].pc = "return"
    /\ ret' = Returned("cite", CitationRef(threads[t].citation))
    /\ ncite' = [ncite EXCEPT ![threads[t].key] = @ + 1]
    /\ ndirect' = [ndirect EXCEPT ![threads[t].key] = @ + 1]
    /\ handed' = [handed EXCEPT ![threads[t].key] =
                                  @ \cup {threads[t].citation}]
    /\ threads' = [threads EXCEPT ![t] = Idle]
    /\ UNCHANGED <<cvars, dvars, ninvoke, gvars, lgr>>

\* a program that registers an entry and whose threads cite the key K1
NextThreads ==
    \/ \E e \in Entries : get_key(e) = "K1" /\ e.ver = 1 /\ Add(e)
    \/ \E t \in Threads, e \in DEntries, ul \in UseLevels :
           ThreadBegin(t, e, ul[1], ul[2])
    \/ \E t \in Threads : ThreadCheck(t)
    \/ \E t \in Threads : ThreadCreate(t)
    \/ \E t \in Threads : ThreadLoad(t)
    \/ \E t \in Threads : ThreadRead(t)
    \/ \E t \in Threads : ThreadWrite(t)
    \/ \E t \in Threads : ThreadReturn(t)

SpecThreads == Init /\ [][NextThreads]_vars

\* ------------------------------------------------------- CollectorGrave

\* strings that are parsed are sequences of characters
S_stdout == <<"s", "t", "d", "o", "u", "t">>
S_stderr == <<"s", "t", "d", "e", "r", "r">>
S_pickle == <<"p", "i", "c", "k", "l", "e">>
Comma == <<",">>

\* the values of DUECREDIT_OUTPUTS modelled: unset, "stdout",
\* "pickle,stdout", "stderr,pickle,stdout", " Pickle,STDERR",
\* "stdout,,stderr", "stdout,xml", "xml,stdout", "", "stdout, " and
\* "stdout,stdout"
EnvValues ==
    { Unset,
      S_stdout,
      S_pickle \o Comma \o S_stdout,
      S_stderr \o Comma \o S_pickle \o Comma \o S_stdout,
      <<" ", "P", "i", "c", "k", "l", "e">> \o Comma
          \o <<"S", "T", "D", "E", "R", "R">>,
      S_stdout \o Comma \o Comma \o S_stderr,
      S_stdout \o Comma \o <<"x", "m", "l">>,
      <<"x", "m", "l">> \o Comma \o S_stdout,
      << >>,
      S_stdout \o Comma \o <<" ">>,
      S_stdout \o Comma \o S_stdout }

\* os.environ.get('DUECREDIT_OUTPUTS', 'stdout')
environ_get(env) == IF env = Unset THEN S_stdout ELSE env

\* str.split(','): the pieces between the commas, empty pieces included
RECURSIVE split(_)
split(str) ==
    IF \E i \in DOMAIN str : str[i] = ","
    THEN LET i == CHOOSE n \in DOMAIN str :
                    str[n] = "," /\ \A m \in 1..(n - 1) : str[m] # ","
         IN <<SubSeq(str, 1, i - 1)>> \o split(SubSeq(str, i + 1, Len(str)))
    ELSE <<str>>

\* str.lower()
UpperCase == <<"A", "B", "C", "D", "E", "F", "G", "H", "I", "J", "K", "L", "M",
               "N", "O", "P", "Q", "R", "S", "T", "U", "V", "W", "X", "Y", "Z">>
LowerCase == <<"a", "b", "c", "d", "e", "f", "g", "h", "i", "j", "k", "l", "m",
               "n", "o", "p", "q", "r", "s", "t", "u", "v", "w", "x", "y", "z">>
lower(str) ==
    [i \in DOMAIN str |->
        IF \E n \in DOMAIN UpperCase : UpperCase[n] = str[i]
        THEN LowerCase[CHOOSE n \in DOMAIN UpperCase : UpperCase[n] = str[i]]
        ELSE str[i]]

\* str.strip()
Whitespace == {" ", "\t", "\n", "\r"}
RECURSIVE strip(_)
strip(str) ==
    IF str = << >> THEN str
    ELSE IF Head(str) \in Whitespace THEN strip(Tail(str))
    ELSE IF str[Len(str)] \in Whitespace THEN strip(SubSeq(str, 1, Len(str) - 1))
    ELSE str

NotImplemented == [cls |-> "NotImplementedError"]

\* mutant of get_output_handler: an unknown type falls back to stdout
get_output_handler_default(type_) ==
    IF type_ = S_stderr THEN [cls |-> "TextOutput", sink |-> "stderr"]
    ELSE IF type_ = S_pickle THEN [cls |-> "PickleOutput", sink |-> "pickle"]
    ELSE [cls |-> "TextOutput", sink |-> "stdout"]

\* CollectorGrave._get_output_handler
get_output_handler(type_) ==
    IF type_ = S_stdout THEN [cls |-> "TextOutput", sink |-> "stdout"]
    ELSE IF type_ = S_stderr THEN [cls |-> "TextOutput", sink |-> "stderr"]
    ELSE IF type_ = S_pickle THEN [cls |-> "PickleOutput", sink |-> "pickle"]
    ELSE NotImplemented

\* mutant of IsTrue: an item of whitespace only is skipped as well
IsTrue_stripped(type_) == strip(type_) # << >>

\* CollectorGrave.__init__, line 140, if type_: the item is not empty
IsTrue(type_) == type_ # << >>

\* CollectorGrave.__init__, lines 136-140: the list comprehension
grave_outputs(env) ==
    LET types == SelectSeq(split(environ_get(env)), IsTrue)
    IN [i \in DOMAIN types |-> get_output_handler(strip(lower(types[i])))]

\* CollectorGrave.__init__
GraveInit(env) ==
    /\ grave = "none"
    /\ pc = "idle"
    /\ environ' = env
    /\ LET outs == grave_outputs(env) IN
         IF \E i \in DOMAIN outs : outs[i] = NotImplemented
         THEN /\ grave' = "failed"
              /\ ret' = Raise("CollectorGrave", "NotImplementedError")
              /\ UNCHANGED <<outputs, dumps>>
         ELSE /\ grave' = "alive"
              /\ outputs' = outs
              /\ dumps' = [i \in DOMAIN outs |-> [asked |-> 0, out |-> NoneVal]]
              /\ ret' = Returned("CollectorGrave", NoneVal)
    /\ UNCHANGED <<cvars, dvars, hvars, broken, xvars>>

\* the sinks of the process: each may be unwritable
Sinks == {"stdout", "stderr", "pickle"}

\* TextOutput.dump / PickleOutput.dump: what the output writes for the
\* collector c it was constructed with
dump(output, c) == [t |-> "written", sink |-> output.sink, state |-> c]

\* CollectorGrave.__del__, lines 153-154, from output i on; the dump of an
\* output whose sink is broken raises and ends the loop
RECURSIVE del_loop(_, _, _, _, _)
del_loop(outs, i, ds, bad, c) ==
    IF i > Len(outs) THEN [dumps |-> ds, raised |-> None]
    ELSE IF outs[i].sink \in bad
    THEN [dumps |-> [ds EXCEPT ![i].asked = @ + 1], raised |-> "IOError"]
    ELSE del_loop(outs, i + 1,
                  [ds EXCEPT ![i] = [asked |-> @.asked + 1,
                                     out |-> dump(outs[i], c)]],
                  bad, c)

\* CollectorGrave.__del__
Del(bad) ==
    /\ grave = "alive"
    /\ pc = "idle"
    /\ broken' = bad
    /\ LET r == del_loop(outputs, 1, dumps, bad, Collector) IN
        /\ dumps' = r.dumps
        /\ ret' = IF r.raised = None THEN Returned("__del__", NoneVal)
                  ELSE Raise("__del__", r.raised)
    /\ grave' = "dead"
    /\ UNCHANGED <<cvars, dvars, hvars, environ, outputs, xvars>>

\* CollectorGrave.__del__ of an object whose __init__ raised: there is no
\* _outputs attribute
DelUnbuilt ==
    /\ grave = "failed"
    /\ grave' = "dead"
    /\ ret' = Raise("__del__", "AttributeError")
    /\ UNCHANGED <<cvars, dvars, hvars, environ, outputs, dumps, broken, xvars>>

\* a program that registers and cites entries, installs the grave and ends
NextGrave ==
    \/ /\ grave \in {"none", "alive"}
       /\ \/ \E e \in Entries : Add(e)
          \/ \E e \in Entries \cup KeyArgs : Cite(e, None, None)
    \/ \E env \in EnvValues : GraveInit(env)
    \/ \E bad \in SUBSET Sinks : Del(bad)
    \/ DelUnbuilt

SpecGrave == Init /\ [][NextGrave]_vars

\* ------------------------------------------------------------------ claims

KeyArg(k) == [kind |-> "str", key |-> k]

\* C1: every key of the citation mapping is a key of the entry mapping,
\* after any sequence of add, cite and decorated calls, failing or not.
C1_CitedKeysAreRegistered == DOMAIN citations \subseteq DOMAIN entries

\* both keys are cited, one of them through a decorated call that raised
C1_Witness ==
    /\ DOMAIN citations = Keys
    /\ ret = Raise("cite_wrapper", "FuncError")

\* C2: one Citation per key: all successful cite calls for k returned the
\* same object, it is the one the citation mapping holds, and its count
\* is the number of successful cite calls made for k so far.
C2_OneCitationPerKey ==
    /\ \A k \in Keys :
        /\ Cardinality(handed[k]) <= 1
        /\ ncite[k] > 0 =>
            /\ k \in DOMAIN citations
            /\ handed[k] = {citations[k]}
            /\ heap[citations[k]].count = ncite[k]
    /\ \A i, j \in DOMAIN heap :
          get_key(heap[i].entry) = get_key(heap[j].entry) => i = j

\* K1 was cited twice, once by key and once through an Entry or a wrapper
C2_Witness ==
    /\ ncite["K1"] = 2
    /\ ndirect["K1"] = 1
    /\ ret = Returned("cite", CitationRef(citations["K1"]))

\* C3: a step that is a successful cite for k raises the count of k's
\* Citation by exactly one, every other step leaves the count and the
\* Citation object of k alone.
C3_CountStep ==
    [][\A k \in Keys :
          /\ Count(citations', heap', k) =
                Count(citations, heap, k) + (ncite'[k] - ncite[k])
          /\ ncite'[k] - ncite[k] \in {0, 1}
          /\ k \in DOMAIN citations =>
                k \in DOMAIN citations' /\ citations'[k] = citations[k]]_vars

\* K1 has count 2 and the last step re-added an Entry with key K1
C3_Witness ==
    /\ Count(citations, heap, "K1") = 2
    /\ Count(citations, heap, "K2") = 1
    /\ ret.op = "add"
    /\ entries["K1"] # heap[citations["K1"]].entry

\* C4: when no cite of k was made but by calls of functions decorated with
\* k, made while k is registered, the count of k is the number of those
\* calls, and a decorated call returns what the function returns for the
\* arguments of the call.
C4_WrapperCountsAndReturns ==
    /\ [](\A k \in Keys :
            ndirect[k] = 0 => Count(citations, heap, k) = ninvoke[k])
    /\ [][BodyReturn => ret'.val = Apply(frame.w.func, frame.farg)]_vars

\* the decorated g was called twice on the key K1 and returned g(1)
C4_Witness ==
    /\ ndirect["K1"] = 0
    /\ Count(citations, heap, "K1") = 2
    /\ ret = Returned("cite_wrapper", IntVal(21))

\* C5: while the body of a decorated function runs the count is already one
\* more than at the call, and the body's return or raise leaves the
\* citations as they are.
C5_CitedBeforeBody ==
    /\ [](pc = "body" =>
            Count(citations, heap, frame.key) = frame.count0 + 1)
    /\ [][BodyReturn \/ BodyRaise =>
            /\ citations' = citations
            /\ heap' = heap
            /\ Count(citations', heap', frame.key) = frame.count0 + 1]_vars

\* the decorated g raised in its second call and the count is 2
C5_Witness ==
    /\ ret = Raise("cite_wrapper", "FuncError")
    /\ \E k \in Keys : ndirect[k] = 0 /\ Count(citations, heap, k) = 2

\* C6: the Citation of a call to a function decorated without a level has
\* the level "func <module>.<name>" of that function; stated for the calls
\* that create the Citation, whichever function the closure of dcite was
\* applied to first.
C6_LevelOfDecorated ==
    pc = "body" /\ decos[frame.w.deco].nolevel /\ frame.count0 = 0 =>
        heap[citations[frame.key]].level = FuncLevel(frame.w.func)

\* C7: cite with a key that is not registered raises KeyError and leaves
\* both mappings and every Citation as they were.
C7_UnknownKeyFails ==
    [][ret'.op = "cite" => \A k \in Keys, ul \in UseLevels :
          k \notin DOMAIN entries /\ Cite(KeyArg(k), ul[1], ul[2]) =>
              /\ ret' = Raise("cite", "KeyError")
              /\ UNCHANGED <<entries, citations, heap>>]_vars

\* cite of the unregistered K2 failed while K1 is registered and cited
C7_Witness ==
    /\ ret = Raise("cite", "KeyError")
    /\ "K1" \in DOMAIN citations
    /\ "K2" \notin DOMAIN entries

\* the items of an added entry or list
ItemsOf(e) == IF isinstance(e, "list") THEN e.items ELSE <<e>>

\* the last item of a non-empty selection of items
LastOf(items, k) ==
    items[CHOOSE i \in DOMAIN items :
            /\ get_key(items[i]) = k
            /\ \A j \in DOMAIN items : get_key(items[j]) = k => j <= i]

\* adding the items one by one, each with its own call of add
RECURSIVE OneByOne(_, _)
OneByOne(es, items) ==
    IF items = << >> THEN es
    ELSE OneByOne(add(es, Head(items)), Tail(items))

\* C8: after add, each added key maps to the last Entry added under it and
\* every other key is as before; a list gives what one add per element
\* gives; the citations are untouched.
C8_AddLatestWins ==
    [][ret'.op = "add" => \A e \in Entries \cup Lists : Add(e) =>
          LET items == ItemsOf(e)
              added == {get_key(items[i]) : i \in DOMAIN items}
          IN /\ DOMAIN entries' = DOMAIN entries \cup added
             /\ \A k \in added : entries'[k] = LastOf(items, k)
             /\ \A k \in DOMAIN entries \ added : entries'[k] = entries[k]
             /\ entries' = OneByOne(entries, items)
             /\ UNCHANGED <<citations, heap>>]_vars

\* K1 is cited with its first Entry and now maps to its second Entry
C8_Witness ==
    /\ ret.op = "add"
    /\ "K1" \in DOMAIN citations
    /\ heap[citations["K1"]].entry.ver = 1
    /\ entries["K1"].ver = 2
    /\ Cardinality(DOMAIN entries) = 2

\* C9: once the grave has died, every configured output was asked to dump
\* exactly once, and what an output wrote is the collector as it is at
\* that time.
C9_EachSinkDumpsOnce ==
    grave = "dead" =>
        \A i \in DOMAIN outputs :
            /\ dumps[i].asked = 1
            /\ dumps[i].out # NoneVal => dumps[i].out = dump(outputs[i], Collector)

\* C10: once the grave has died, every configured output was asked to
\* dump, every output whose sink is writable has written, and no exception
\* left __del__.
C10_SinksAreIsolated ==
    grave = "dead" /\ outputs # << >> =>
        /\ \A i \in DOMAIN outputs :
            /\ dumps[i].asked = 1
            /\ outputs[i].sink \notin broken => dumps[i].out # NoneVal
        /\ ret.raised = None
\* the comma-separated items of a sink list, stated without split: joined
\* by commas they give the list back and none of them holds a comma
RECURSIVE Join(_)
Join(items) ==
    IF Len(items) = 1 THEN items[1]
    ELSE items[1] \o Comma \o Join(Tail(items))
IsItemsOf(items, str) ==
    /\ Len(items) >= 1
    /\ Join(items) = str
    /\ \A i \in DOMAIN items : \A n \in DOMAIN items[i] : items[i][n] # ","

\* p is q without its leading and trailing whitespace
IsStripOf(p, q) ==
    \E i, j \in 0..Len(q) :
        /\ i + j <= Len(q)
        /\ p = SubSeq(q, i + 1, Len(q) - j)
        /\ \A n \in 1..i : q[n] \in Whitespace
        /\ \A n \in (Len(q) - j + 1)..Len(q) : q[n] \in Whitespace
        /\ p # << >> => p[1] \notin Whitespace /\ p[Len(p)] \notin Whitespace

\* the item names one of the three sinks, case and surrounding whitespace
\* apart
Recognized(item) ==
    \E name \in {S_stdout, S_stderr, S_pickle} : IsStripOf(name, lower(item))

\* the sink list of the environment has an item that is not skipped and
\* names none of the three sinks
HasUnknownSink(env) ==
    LET items == split(environ_get(env)) IN
        /\ IsItemsOf(items, environ_get(env))
        /\ \E i \in DOMAIN items : items[i] # << >> /\ ~Recognized(items[i])

\* C11: constructing the grave with a sink list that holds an identifier
\* other than stdout, stderr and pickle, at any position, raises
\* NotImplementedError; no outputs exist, and no sink is asked to dump then
\* or when the failed object is finalized.
C11_UnknownSinkFailsConstruction ==
    grave # "none" /\ HasUnknownSink(environ) =>
        /\ grave \in {"failed", "dead"}
        /\ outputs = << >>
        /\ dumps = << >>
        /\ ret \in {Raise("CollectorGrave", "NotImplementedError"),
                    Raise("__del__", "AttributeError")}

\* "stdout,xml": the grave was not built and its finalization dumped nothing
C11_Witness ==
    /\ environ = S_stdout \o Comma \o <<"x", "m", "l">>
    /\ grave = "dead"
    /\ dumps = << >>
    /\ DOMAIN citations # {}

\* every thread is out of cite
AllReturned == \A t \in Threads : threads[t].pc = "idle"

\* C12: when threads call cite on the same collector and key, in every
\* interleaving one Citation is created for the key, every caller is handed
\* that Citation, and once all the calls have returned the count is the
\* number of calls.
C12_AtomicPerKey ==
    \A k \in Keys :
        /\ Cardinality({id \in DOMAIN heap : get_key(heap[id].entry) = k}) <= 1
        /\ Cardinality(handed[k]) <= 1
        /\ AllReturned => Count(citations, heap, k) = ncite[k]

\* C13: first wins, count accumulates: a cite of a key that has a Citation,
\* made directly or by a decorated function, leaves the Citation's use,
\* level and Entry as they were at its creation, whatever use, level and
\* Entry the call passes; only the count changes, by one.
C13_FirstWins ==
    [][ret'.op = "cite" =>
        \A k \in DOMAIN citations : ncite'[k] # ncite[k] =>
            /\ citations' = citations
            /\ heap' = [heap EXCEPT ![citations[k]].count = @ + 1]
            /\ heap'[citations[k]].use = heap[citations[k]].use
            /\ heap'[citations[k]].level = heap[citations[k]].level
            /\ heap'[citations[k]].entry = heap[citations[k]].entry]_vars

\* the Citation of K1 was created by a decorated call with use "u2" and the
\* first Entry of K1; a later cite with another Entry and another use
\* returned it as it was, counted twice
C13_Witness ==
    /\ "K1" \in DOMAIN citations
    /\ pc = "idle"
    /\ ret = Returned("cite", CitationRef(citations["K1"]))
    /\ heap[citations["K1"]].use = "u2"
    /\ heap[citations["K1"]].entry.ver = 1
    /\ entries["K1"].ver = 2
    /\ heap[citations["K1"]].count = 2

\* C14, as stated: in every reachable state the entry of the Citation of
\* every cited key k is the Entry stored under k in the entry mapping, also
\* after an Entry with key k was registered again.
C14_EntryIsCurrent ==
    \A k \in DOMAIN citations : heap[citations[k]].entry = entries[k]

\* C14, amended: the entry of the Citation of a cited key k is the Entry
\* that was stored under k when the Citation was created; it has key k, it
\* never changes, and it is the Entry stored under k for as long as no
\* other Entry is registered under k.
C14_EntryAtCreation ==
    /\ [](\A k \in DOMAIN citations :
            k \in DOMAIN entries /\ get_key(heap[citations[k]].entry) = k)
    /\ [][\A k \in DOMAIN citations' :
            /\ k \notin DOMAIN citations =>
                  heap'[citations'[k]].entry = entries'[k]
            /\ k \in DOMAIN citations =>
                  /\ heap'[citations'[k]].entry = heap[citations[k]].entry
                  /\ heap[citations[k]].entry = entries[k]
                       /\ entries'[k] = entries[k]
                       => heap'[citations'[k]].entry = entries'[k]]_vars

\* K1 was cited, and then another Entry was added under K1: the Citation
\* still has the first one
C14_Witness ==
    /\ "K1" \in DOMAIN citations
    /\ ret.op = "add"
    /\ heap[citations["K1"]].entry.ver = 1
    /\ entries["K1"].ver = 2

\* C15: a decorator of dcite resolves its key when the decorated function
\* is called: a call made while the key is not registered raises KeyError,
\* does not start the function's body and leaves both mappings as they
\* were; a call made once the key is registered starts the body with the
\* citation counted.
C15_KeyResolvedAtCall ==
    [][\A w \in wrappers, farg \in FArgs :
          isinstance(decos[w.deco].args[1], "str") /\ CiteWrapper(w, farg) =>
              IF KeyOf(decos[w.deco]) \notin DOMAIN entries
              THEN /\ ret' = Raise("cite_wrapper", "KeyError")
                   /\ pc' = "idle"
                   /\ UNCHANGED <<entries, citations, heap>>
              ELSE /\ pc' = "body"
                   /\ Count(citations', heap', KeyOf(decos[w.deco]))
                        = Count(citations, heap, KeyOf(decos[w.deco])) + 1]_vars

\* C16: decoration has no effect on the collector: dcite(...) and the
\* application of its result to a function leave the entry mapping, the
\* citation mapping and every count as they were; a key that was neither
\* cited directly nor through a call of a decorated function has no
\* Citation, and the call of a decorated function that creates the
\* Citation leaves it with count 1.
C16_DecorationHasNoEffect ==
    /\ [][ret'.op \in {"dcite", "func_wrapper"} =>
            UNCHANGED <<entries, citations, heap>>]_vars
    /\ [](\A k \in Keys :
            ndirect[k] = 0 /\ ninvoke[k] = 0 => k \notin DOMAIN citations)
    /\ [][pc = "idle" /\ pc' = "body" /\ frame'.key \notin DOMAIN citations =>
            Count(citations', heap', frame'.key) = 1]_vars

\* K1 was registered and cited by nobody before the decorated function
\* was called; its first call created the Citation with count 1
C16_Witness ==
    /\ pc = "body"
    /\ frame.count0 = 0
    /\ ndirect[frame.key] = 0
    /\ ninvoke[frame.key] = 1
    /\ ret.op = "cite"
    /\ heap[citations[frame.key]].count = 1

SinkChars == [stdout |-> S_stdout, stderr |-> S_stderr, pickle |-> S_pickle]
NotEmpty(item) == item # << >>

\* C17: the sinks of a grave that was built: stdout alone when
\* DUECREDIT_OUTPUTS is unset; otherwise one sink for each comma-separated
\* item that is not empty, in the order of the items and with duplicates
\* kept, each being the sink the item names once lower-cased and stripped
\* of surrounding whitespace; only empty items are skipped, and the grave
\* fails to build only when an item that is not skipped names no sink.
C17_SinkSelection ==
    /\ grave = "alive" /\ environ = Unset =>
          outputs = <<[cls |-> "TextOutput", sink |-> "stdout"]>>
    /\ grave = "alive" /\ environ # Unset =>
          LET items == split(environ)
              kept == SelectSeq(items, NotEmpty)
          IN /\ IsItemsOf(items, environ)
             /\ Len(outputs) = Len(kept)
             /\ \A i \in DOMAIN kept :
                    IsStripOf(SinkChars[outputs[i].sink], lower(kept[i]))
    /\ grave = "failed" => HasUnknownSink(environ)

\* " Pickle,STDERR" gives the sinks pickle and stderr, in this order
C17_Witness ==
    /\ grave = "alive"
    /\ environ = <<" ", "P", "i", "c", "k", "l", "e">> \o Comma
                    \o <<"S", "T", "D", "E", "R", "R">>
    /\ Len(outputs) = 2
    /\ outputs[1].sink = "pickle"
    /\ outputs[2].sink = "stderr"

\* the last four characters are ".bib"
EndsInBib(chars) ==
    /\ Len(chars) >= 4
    /\ chars[Len(chars) - 3] = "."
    /\ chars[Len(chars) - 2] = "b"
    /\ chars[Len(chars) - 1] = "i"
    /\ chars[Len(chars)] = "b"

\* C18: load of a source that is not a string raises ValueError, load of a
\* string that does not end in ".bib" raises NotImplementedError, and only
\* a string that ends in ".bib" is given to _load_bib; the entry mapping,
\* the citation mapping and the Citations are as before in every case.
C18_LoadDispatch ==
    [][ret'.op = "load" => \A src \in Srcs : Load(src) =>
          /\ UNCHANGED <<entries, citations, heap>>
          /\ src.kind # "str" =>
                ret' = Raise("load", "ValueError") /\ lgr' = lgr
          /\ src.kind = "str" /\ ~EndsInBib(src.chars) =>
                ret' = Raise("load", "NotImplementedError") /\ lgr' = lgr
          /\ src.kind = "str" /\ EndsInBib(src.chars) =>
                /\ ret' = Returned("load", NoneVal)
                /\ lgr' = lgr \cup {<<"Loading", src.chars>>}]_vars

\* entries are registered and cited, "refs.bib" was given to _load_bib and
\* the last load failed for its format
C18_Witness ==
    /\ ret = Raise("load", "NotImplementedError")
    /\ lgr = {<<"Loading", S_refs \o S_bib>>}
    /\ DOMAIN citations = Keys

====
